---- MODULE Spec2Model ----
(***************************************************************************)
(* space-invaders-js: the asset caches AssetLoader (src/src/index.js),     *)
(* SpriteManager (src/unnamed/part_000) and Sprite (src/unnamed/part_001), *)
(* the loops GameLoop (src/unnamed/part_002) and Canvas                    *)
(* (src/src/core/Canvas.js), the performance monitor                       *)
(* (src/src/core/Performance.js), and the functions clamp and url          *)
(* validation.                                                             *)
(*                                                                         *)
(* JavaScript is single threaded: every method call, image event handler,  *)
(* timer callback and animation-frame callback runs to completion,         *)
(* followed by the promise reactions it made runnable.  Each of them is    *)
(* one action here.  The classes share no state; a behaviour exercises one *)
(* object or function, named by unit.                                      *)
(***************************************************************************)
EXTENDS Integers, Sequences, FiniteSets, TLC

\* ------------------------------------------------------------------ bounds
\* Images a behaviour of Spec creates.
MaxLoads == 2
\* Images a behaviour of SpecLoads creates.
MaxSeqLoads == 3
\* Largest value of Date.now() the model distinguishes.
MaxClock == 2
\* Latest animation frame, in ms.
MaxTime == 27
\* Animation-frame callbacks start() may leave requested at once.
MaxScheduled == 2
\* Latest value of performance.now() in a behaviour of the performance monitor.
MaxPerfTime == 16
\* Values of options.maxCacheSize the objects are constructed with.
CacheSizes == {1, 2}

\* ------------------------------------------------------- JavaScript values
\* A value passed as url: a string (a sequence of characters), null or
\* undefined.
Str(s) == [t |-> "string", s |-> s]
JsNull == [t |-> "null", s |-> <<>>]
JsUndefined == [t |-> "undefined", s |-> <<>>]

UrlA == Str(<<"a", ".", "p", "n", "g">>)
UrlB == Str(<<"b", ".", "p", "n", "g">>)
UrlC == Str(<<"c", ".", "p", "n", "g">>)
UrlEmpty == Str(<<>>)
UrlTxt == Str(<<"x", ".", "t", "x", "t">>)

\* The arguments loadSprite is called with.
Urls == {UrlA, UrlB, UrlC, UrlEmpty, UrlTxt, JsNull, JsUndefined}

\* !url || typeof url !== 'string'
Falsy(u) == u.t # "string" \/ Len(u.s) = 0

\* String.prototype.toLowerCase on one character.
LowerChar(ch) ==
    CASE ch = "P" -> "p"
      [] ch = "N" -> "n"
      [] ch = "G" -> "g"
      [] ch = "A" -> "a"
      [] OTHER -> ch

ToLowerCase(s) == [i \in 1..Len(s) |-> LowerChar(s[i])]

\* url.split('.').pop(): the text after the last '.', the whole string when
\* it holds no '.'.
LastDot(s) ==
    LET dots == {i \in 1..Len(s) : s[i] = "."}
    IN  IF dots = {} THEN 0 ELSE CHOOSE i \in dots : \A j \in dots : j <= i

SplitPop(s) == SubSeq(s, LastDot(s) + 1, Len(s))

ALSupportedFormats ==
    { <<"p", "n", "g">>, <<"j", "p", "g">>, <<"j", "p", "e", "g">>,
      <<"w", "e", "b", "p">>, <<"s", "v", "g">> }

SMSupportedFormats ==
    { <<"p", "n", "g">>, <<"j", "p", "g">>, <<"j", "p", "e", "g">>,
      <<"w", "e", "b", "p">> }

\* Faulty variant: every url passes.
ValidateAssetUrlAcceptsAll(u) == TRUE

\* AssetLoader._validateAssetUrl returns without throwing.
ValidateAssetUrl(u) ==
    /\ ~Falsy(u)
    /\ ToLowerCase(SplitPop(u.s)) \in ALSupportedFormats

\* SpriteManager.#validateUrl returns without throwing.
ValidateUrl(u) ==
    /\ ~Falsy(u)
    /\ ToLowerCase(SplitPop(u.s)) \in SMSupportedFormats

ALKeys == {u \in Urls : ValidateAssetUrl(u)}
SMKeys == {u \in Urls : ValidateUrl(u)}

\* The urls the validation functions are called with: name, '.' or nothing,
\* extension; null and undefined.
ValidateArgs ==
    { Str(stem \o sep \o ext) :
        stem \in { <<>>, <<"a">>, <<"A">>, <<"a", ".", "b">> },
        sep \in { <<>>, <<".">> },
        ext \in { <<>>, <<"p", "n", "g">>, <<"P", "N", "G">>, <<"j", "p", "g">>,
                  <<"s", "v", "g">>, <<"t", "x", "t">> } }
    \cup {JsNull, JsUndefined}

\* A value passed where a number is expected: a finite number n, NaN,
\* Infinity, -Infinity (n is its sign), or a value that is not a number
\* (the string '1', undefined).
Num(n) == [t |-> "number", k |-> "finite", n |-> n]
NaN == [t |-> "number", k |-> "NaN", n |-> 0]
PosInfinity == [t |-> "number", k |-> "Infinity", n |-> 1]
NegInfinity == [t |-> "number", k |-> "Infinity", n |-> -1]
NumericString == [t |-> "string", k |-> "finite", n |-> 1]
NotANumber == [t |-> "undefined", k |-> "NaN", n |-> 0]

\* Number.isFinite: true of finite values of type number only.
NumberIsFinite(x) == x.t = "number" /\ x.k = "finite"

\* ToNumber, applied by Math.max and Math.min to each argument.
ToNumber(x) == [x EXCEPT !.t = "number"]

\* a < b on numbers other than NaN.
NumLess(a, b) ==
    CASE a.k = "finite" /\ b.k = "finite" -> a.n < b.n
      [] a.k = "finite" -> b.n = 1
      [] b.k = "finite" -> a.n = -1
      [] OTHER -> a.n < b.n

\* Math.max(a, b) and Math.min(a, b): NaN when either argument converts to NaN.
MathMax(a, b) ==
    LET x == ToNumber(a)
        y == ToNumber(b)
    IN  IF x.k = "NaN" \/ y.k = "NaN" THEN NaN
        ELSE IF NumLess(x, y) THEN y ELSE x

MathMin(a, b) ==
    LET x == ToNumber(a)
        y == ToNumber(b)
    IN  IF x.k = "NaN" \/ y.k = "NaN" THEN NaN
        ELSE IF NumLess(y, x) THEN y ELSE x

\* What a call did: it returned value, or threw an error; error is the class
\* of a TypeError and the message of an Error.
NoReturn == [kind |-> "none", error |-> "", value |-> NaN]
Return(v) == [kind |-> "return", error |-> "", value |-> v]
Throw(e) == [kind |-> "throw", error |-> e, value |-> NaN]

\* a - b on numbers; NaN when an operand is NaN or undefined.
NumSub(a, b) ==
    IF NumberIsFinite(a) /\ NumberIsFinite(b) THEN Num(a.n - b.n) ELSE NaN

\* new Performance(), then Object.freeze(performanceMonitor).  The metrics
\* object is not frozen: freeze is shallow.  _frameStartTime is not a property
\* of the instance, so reading it gives undefined.
\*   startedAt: history, performance.now() at the latest startFrame() call,
\*              -1 before the first
NewPerformanceMonitor ==
    [metrics |-> [fps |-> Num(0), frameTime |-> Num(0), gameTime |-> Num(0),
                  idleTime |-> Num(0)],
     frameCount |-> 0, lastFrameTime |-> 0, lastFpsUpdate |-> 0,
     frameStartTime |-> NotANumber, fpsUpdateInterval |-> 1000,
     frozen |-> TRUE, startedAt |-> -1]

\* getMetrics(): a copy of the metrics.
GetMetrics(m) == m.metrics

\* Math.round(a / b) for a >= 0 and b > 0.
MathRoundDiv(a, b) == (2 * a + b) \div (2 * b)

\* startFrame() at time t.  On a frozen instance the first assignment,
\* this._frameStartTime = ..., raises a TypeError (class bodies are strict
\* code); the catch block logs it and makes the same assignment, which raises
\* a TypeError that leaves startFrame.
StartFrame(m, t) ==
    IF m.frozen
    THEN [monitor |-> m, returned |-> Throw("TypeError")]
    ELSE [monitor |-> [m EXCEPT !.frameStartTime = Num(t),
                                !.frameCount = @ + 1,
                                !.metrics.idleTime =
                                    IF m.lastFrameTime # 0 THEN Num(t - m.lastFrameTime) ELSE @],
          returned |-> Return(NotANumber)]

\* endFrame() at time t.  The two assignments to fields of the metrics object
\* succeed; on a frozen instance this._lastFrameTime = currentTime raises a
\* TypeError, which the catch block logs.
EndFrame(m, t) ==
    LET m1 == [m EXCEPT !.metrics.frameTime = NumSub(Num(t), m.frameStartTime),
                        !.metrics.gameTime = Num(t)]
        m2 == [m1 EXCEPT !.lastFrameTime = t]
    IN  IF m.frozen
        THEN [monitor |-> m1, returned |-> Return(NotANumber)]
        ELSE IF t - m.lastFpsUpdate >= m.fpsUpdateInterval
        THEN [monitor |-> [m2 EXCEPT !.metrics.fps =
                                         Num(MathRoundDiv(m.frameCount * 1000,
                                                          t - m.lastFpsUpdate)),
                                     !.frameCount = 0,
                                     !.lastFpsUpdate = t],
              returned |-> Return(NotANumber)]
        ELSE [monitor |-> m2, returned |-> Return(NotANumber)]

\* reset() at time t.  On a frozen instance the first assignment,
\* this._metrics = {...}, raises a TypeError that nothing catches.
Reset(m, t) ==
    IF m.frozen
    THEN [monitor |-> m, returned |-> Throw("TypeError")]
    ELSE [monitor |-> [m EXCEPT !.metrics = NewPerformanceMonitor.metrics,
                                !.frameCount = 0,
                                !.lastFrameTime = 0,
                                !.lastFpsUpdate = t],
          returned |-> Return(NotANumber)]

\* Faulty variant: clamp without the check of its arguments.
ClampUnchecked(value, min, max) == Return(MathMin(MathMax(value, min), max))

\* clamp(value, min, max)
Clamp(value, min, max) ==
    IF ~NumberIsFinite(value) \/ ~NumberIsFinite(min) \/ ~NumberIsFinite(max)
    THEN Throw("TypeError")
    ELSE Return(MathMin(MathMax(value, min), max))

\* The values clamp is called with.
ClampValues ==
    {Num(n) : n \in -1..2} \cup {NaN, PosInfinity, NegInfinity, NumericString, NotANumber}

ClampArgs == ClampValues \X ClampValues \X ClampValues

\* ------------------------------------------------------------ Map helpers
\* A JavaScript Map in insertion order: a sequence of records with a key
\* field, no key twice.
MapHas(m, k) == \E i \in 1..Len(m) : m[i].key = k

MapIndex(m, k) == CHOOSE i \in 1..Len(m) : m[i].key = k

MapGet(m, k) == m[MapIndex(m, k)]

\* Map.prototype.set: an existing key keeps its place and takes the new value.
MapSet(m, e) ==
    IF MapHas(m, e.key)
    THEN [i \in 1..Len(m) |-> IF m[i].key = e.key THEN e ELSE m[i]]
    ELSE Append(m, e)

\* Map.prototype.delete
MapDelete(m, k) == SelectSeq(m, LAMBDA e : e.key # k)

MapKeys(m) == {m[i].key : i \in 1..Len(m)}

\* A promise settles once: later resolve and reject calls are ignored.
Settle(state, outcome) == IF state = "pending" THEN outcome ELSE state

\* ------------------------------------------------------------------ state
VARIABLES
    unit,             \* the object the behaviour exercises
    result,           \* what the most recent call did and returned
    maxCacheSize,     \* options.maxCacheSize the object was constructed with
    \* AssetLoader
    cache,            \* this.cache: Map url -> img
    loading,          \* this.loading: url -> Image whose loadPromise is registered, 0 when absent
    images,           \* the Images loadSprite created, each with its timer and promises
    lastUse,          \* history: the cached urls, least recently used first (a use is
                      \* the insertion of the url or a cache hit of loadSprite)
    preload,          \* the loadSprite promises a preloadSprites call handed to Promise.all
    \* SpriteManager
    spriteCache,      \* #spriteCache: Map url -> sprite {image, id, lastUsed}
    loadingPromises,  \* #loadingPromises: url -> load whose promise is registered, 0 when absent
    spriteLoads,      \* the loads #loadSpriteInternal started
    now,              \* Date.now()
    errorHandlers,    \* #errorHandlers: the handlers, in the order they were added
    handled,          \* history: how often the most recent call, when it threw in
                      \* validation, invoked each handler with its error
    \* Sprite
    imageCache,       \* static #imageCache: src -> img, 0 when absent
    loadingSprites,   \* static #loadingSprites: src -> Image whose promise is registered, 0 when absent
    spriteImages,     \* the Images Sprite.load created
    sprites,          \* the Sprite instances
    \* GameLoop and Canvas
    isRunning,        \* this.isRunning
    updateCallback,   \* GameLoop: this.updateCallback is set
    renderCallback,   \* GameLoop: this.renderCallback is set
    lastTimestamp,    \* GameLoop: this.lastTimestamp
    accumulator,      \* GameLoop: this.accumulator
    lastFrameTime,    \* Canvas: this.lastFrameTime
    clock,            \* performance.now(), and the timestamp of the current animation frame
    scheduled,        \* callbacks requestAnimationFrame holds for the next frame
    firing,           \* callbacks of the current frame that have not run yet
    frame,            \* history: what the most recent loop call did
    \* utility functions
    args,             \* the arguments of the call
    returned,         \* what the call returned or threw
    monitor           \* the exported performanceMonitor: its fields, and whether it is frozen

alVars == <<cache, loading, images, lastUse, preload>>
smVars == <<spriteCache, loadingPromises, spriteLoads, now, errorHandlers, handled>>
spVars == <<imageCache, loadingSprites, spriteImages, sprites>>
loopVars == <<isRunning, updateCallback, renderCallback, lastTimestamp, accumulator,
              lastFrameTime, clock, scheduled, firing, frame>>
utilVars == <<args, returned, monitor>>
vars == <<unit, result, maxCacheSize, alVars, smVars, spVars, loopVars, utilVars>>

\* result: the branch the most recent loadSprite call took and the object it
\* concerns (the handle of a hit, the load joined or started); NoResult after
\* any other step.
NoResult == [kind |-> "none", id |-> 0]
CallResult(kind, id) == [kind |-> kind, id |-> id]

\* preload: no preloadSprites call has been made.
NoPreload == [called |-> FALSE, items |-> <<>>]

\* config.src of the Sprite instances constructed.
SpriteSrcs == {UrlA, UrlB}

\* new Sprite({src})
\*   image, isLoaded: the fields of the instance (image 0 is null)
\*   awaiting:        the Images whose promise a load() of the instance awaits
\*   disposed:        history: dispose() was called and load() has not been
\*                    called since
NewSprite(src) ==
    [src |-> src, image |-> 0, isLoaded |-> FALSE, awaiting |-> {}, disposed |-> FALSE]

\* render(ctx, x, y) throws 'Cannot render unloaded sprite'.
SpriteRenderThrows(sprite) == ~sprite.isLoaded \/ sprite.image = 0

\* One call of a user callback: update(arg) with the time step, or render
\* with arg the accumulator that alpha is computed from (0 for Canvas).
UpdateCall(arg) == [fn |-> "update", arg |-> arg]
RenderCall(arg) == [fn |-> "render", arg |-> arg]

\* frame: the loop call ran no update and no render, and threw nothing.
NoFrame == [updates |-> 0, renders |-> 0, threw |-> FALSE, calls |-> <<>>]

\* The fields the GameLoop constructor and Canvas.initialize set.
\* The error handlers: the one #setupErrorHandling installs, and two that
\* onError may add, one of which throws.
Handlers == {"console", "plain", "throwing"}

\* No handler has been invoked.
NotHandled == [h \in Handlers |-> 0]

InitLoopVars ==
    /\ isRunning = FALSE
    /\ updateCallback = FALSE
    /\ renderCallback = FALSE
    /\ lastTimestamp = 0
    /\ accumulator = 0
    /\ lastFrameTime = 0
    /\ clock = 0
    /\ scheduled = 0
    /\ firing = 0
    /\ frame = NoFrame

\* The objects constructed; a behaviour exercises the one named by unit.
InitOf(units) ==
    /\ unit \in units
    /\ result = NoResult
    /\ imageCache = [k \in SpriteSrcs |-> 0]
    /\ loadingSprites = [k \in SpriteSrcs |-> 0]
    /\ spriteImages = <<>>
    /\ sprites \in IF unit = "Sprite"
                   THEN {<<NewSprite(a), NewSprite(b)>> : a \in {UrlA}, b \in SpriteSrcs}
                   ELSE {<<>>}
    /\ cache = <<>>
    /\ loading = [k \in ALKeys |-> 0]
    /\ images = <<>>
    /\ lastUse = <<>>
    /\ preload = NoPreload
    /\ spriteCache = <<>>
    /\ loadingPromises = [k \in SMKeys |-> 0]
    /\ spriteLoads = <<>>
    /\ errorHandlers = <<"console">>
    /\ handled = NotHandled
    /\ maxCacheSize \in IF unit \in {"AssetLoader", "SpriteManager"} THEN CacheSizes ELSE {0}
    /\ now = 0
    /\ InitLoopVars
    /\ args \in CASE unit = "clamp" -> ClampArgs
                 [] unit \in {"_validateAssetUrl", "#validateUrl"} -> ValidateArgs
                 [] OTHER -> {<<>>}
    /\ returned = NoReturn
    /\ monitor = NewPerformanceMonitor

Init == InitOf({"AssetLoader", "SpriteManager", "Sprite"})

\* ------------------------------------------------------------ AssetLoader
\* this.cache.has(url)
ALCacheHas(u) == MapHas(cache, u)

\* Faulty variant: the pending load is not recognised.
ALLoadingHasNever(u) == FALSE

\* this.loading.has(url)
ALLoadingHas(u) == loading[u] # 0

\* Faulty variant: the size limit is not enforced.
ManageCacheSizeKeepsAll(c, max) == c

\* Faulty variant: over the limit, the key just inserted is deleted.
ManageCacheSizeDropsNewest(c, max) ==
    IF Len(c) > max THEN SubSeq(c, 1, Len(c) - 1) ELSE c

\* _manageCacheSize: over the limit, the first key of the Map is deleted.
ManageCacheSize(c, max) == IF Len(c) > max THEN Tail(c) ELSE c

\* The Image, timer and promises one loadSprite call creates.
\*   img:    the Image has fired neither event, or load, or error
\*   timer:  the setTimeout of _createTimeout is armed, or fired before the
\*           Image fired an event
\*   race:   the Promise.race the starting caller awaits
\*   joined: later callers were handed loadPromise from this.loading and
\*           wait for it to settle
NewImage(u) ==
    [key |-> u, img |-> "inflight", timer |-> "armed", race |-> "pending",
     joined |-> FALSE]

\* Faulty variant: the caller awaits loadPromise alone.
RaceWithoutTimeout(race) == race

\* Promise.race([loadPromise, timeoutPromise]) when timeoutPromise rejects.
RaceOnTimeout(race) == Settle(race, "timeout")

\* loadPromise, settled by img.onload / img.onerror alone.
LoadPromise(im) ==
    CASE im.img = "loaded" -> "resolved"
      [] im.img = "failed" -> "failed"
      [] OTHER -> "pending"

ALLoadSprite(u) ==
    /\ unit = "AssetLoader"
    /\ UNCHANGED <<unit, maxCacheSize, utilVars, loopVars, preload, spVars, smVars>>
    /\ IF ~ValidateAssetUrl(u)
       THEN /\ result' = CallResult("invalid", 0)
            /\ UNCHANGED <<cache, loading, images, lastUse>>
       ELSE IF ALCacheHas(u)
       THEN /\ result' = CallResult("hit", MapGet(cache, u).img)
            /\ lastUse' = Append(SelectSeq(lastUse, LAMBDA k : k # u), u)
            /\ UNCHANGED <<cache, loading, images>>
       ELSE IF ALLoadingHas(u)
       THEN /\ result' = CallResult("join", loading[u])
            /\ images' = [images EXCEPT ![loading[u]].joined = TRUE]
            /\ UNCHANGED <<cache, loading, lastUse>>
       ELSE /\ images' = Append(images, NewImage(u))
            /\ loading' = [loading EXCEPT ![u] = Len(images) + 1]
            /\ result' = CallResult("start", Len(images) + 1)
            /\ UNCHANGED <<cache, lastUse>>

\* img.onload
ALImgOnload(i) ==
    /\ unit = "AssetLoader"
    /\ i \in 1..Len(images)
    /\ images[i].img = "inflight"
    /\ cache' = ManageCacheSize(MapSet(cache, [key |-> images[i].key, img |-> i]),
                                maxCacheSize)
    /\ loading' = [loading EXCEPT ![images[i].key] = 0]
    /\ images' = [images EXCEPT ![i].img = "loaded", ![i].joined = FALSE,
                                ![i].race = Settle(@, "resolved")]
    /\ lastUse' = SelectSeq(Append(SelectSeq(lastUse, LAMBDA k : k # images[i].key),
                                   images[i].key),
                            LAMBDA k : MapHas(cache', k))
    /\ result' = NoResult
    /\ UNCHANGED <<unit, maxCacheSize, utilVars, loopVars, preload, spVars, smVars>>

\* Faulty variant: onerror leaves the loading entry in place.
ALImgOnerrorKeepsEntry(i) ==
    /\ unit = "AssetLoader"
    /\ i \in 1..Len(images)
    /\ images[i].img = "inflight"
    /\ images' = [images EXCEPT ![i].img = "failed", ![i].joined = FALSE,
                                ![i].race = Settle(@, "failed")]
    /\ result' = NoResult
    /\ UNCHANGED <<unit, maxCacheSize, utilVars, loopVars, preload, spVars, smVars, cache, loading, lastUse>>

\* img.onerror
ALImgOnerror(i) ==
    /\ unit = "AssetLoader"
    /\ i \in 1..Len(images)
    /\ images[i].img = "inflight"
    /\ loading' = [loading EXCEPT ![images[i].key] = 0]
    /\ images' = [images EXCEPT ![i].img = "failed", ![i].joined = FALSE,
                                ![i].race = Settle(@, "failed")]
    /\ result' = NoResult
    /\ UNCHANGED <<unit, maxCacheSize, utilVars, loopVars, preload, spVars, smVars, cache, lastUse>>

\* The setTimeout callback of _createTimeout, run before the Image fires an
\* event: it rejects timeoutPromise.  The timer is never cleared; when it
\* fires after the Image's event the race has settled and nothing changes.
ALTimeout(i) ==
    /\ unit = "AssetLoader"
    /\ i \in 1..Len(images)
    /\ images[i].img = "inflight"
    /\ images[i].timer = "armed"
    /\ images' = [images EXCEPT ![i].timer = "fired",
                                ![i].race = RaceOnTimeout(@)]
    /\ result' = NoResult
    /\ UNCHANGED <<unit, maxCacheSize, utilVars, loopVars, preload, spVars, smVars, cache, loading, lastUse>>

ALClearCache ==
    /\ unit = "AssetLoader"
    /\ cache' = <<>>
    /\ loading' = [k \in ALKeys |-> 0]
    /\ lastUse' = <<>>
    /\ result' = NoResult
    /\ UNCHANGED <<unit, maxCacheSize, utilVars, loopVars, preload, spVars, smVars, images>>

\* Faulty variant: the lookup moves a cached url to the end of the Map.
ALIsCachedRefreshes(u) ==
    /\ unit = "AssetLoader"
    /\ result' = CallResult("isCached", IF MapHas(cache, u) THEN 1 ELSE 0)
    /\ cache' = IF MapHas(cache, u)
                THEN Append(MapDelete(cache, u), MapGet(cache, u))
                ELSE cache
    /\ UNCHANGED <<unit, maxCacheSize, utilVars, loopVars, preload, spVars, smVars, loading, images, lastUse>>

\* isCached(url): result.id is 1 for true, 0 for false.
ALIsCached(u) ==
    /\ unit = "AssetLoader"
    /\ result' = CallResult("isCached", IF MapHas(cache, u) THEN 1 ELSE 0)
    /\ UNCHANGED <<unit, maxCacheSize, utilVars, loopVars, preload, spVars, smVars, cache, loading, images, lastUse>>

ALNext ==
    \/ \E u \in Urls : ALLoadSprite(u) /\ Len(images') <= MaxLoads
    \/ \E i \in 1..MaxLoads : ALImgOnload(i)
    \/ \E i \in 1..MaxLoads : ALImgOnerror(i)
    \/ \E i \in 1..MaxLoads : ALTimeout(i)
    \/ ALClearCache
    \/ \E u \in Urls : ALIsCached(u)

\* --------------------------------------------- AssetLoader.preloadSprites
\* The synchronous part of one loadSprite(u) call, up to its first await, on
\* the maps st = [cache, loading, images, lastUse]: the maps it leaves and the
\* promise it returns (item: the branch taken and the Image concerned).
LoadSpriteCall(st, u) ==
    IF ~ValidateAssetUrl(u)
    THEN [st |-> st, item |-> CallResult("invalid", 0)]
    ELSE IF MapHas(st.cache, u)
    THEN [st |-> [st EXCEPT !.lastUse = Append(SelectSeq(@, LAMBDA k : k # u), u)],
          item |-> CallResult("hit", MapGet(st.cache, u).img)]
    ELSE IF st.loading[u] # 0
    THEN [st |-> [st EXCEPT !.images[st.loading[u]].joined = TRUE],
          item |-> CallResult("join", st.loading[u])]
    ELSE [st |-> [st EXCEPT !.images = Append(@, NewImage(u)),
                            !.loading[u] = Len(st.images) + 1],
          item |-> CallResult("start", Len(st.images) + 1)]

\* urls.map(url => this.loadSprite(url)): the calls run one after another,
\* each on the maps the one before left.
RECURSIVE MapLoadSprite(_, _, _)
MapLoadSprite(st, items, urls) ==
    IF urls = <<>>
    THEN [st |-> st, items |-> items]
    ELSE LET r == LoadSpriteCall(st, Head(urls))
         IN  MapLoadSprite(r.st, Append(items, r.item), Tail(urls))

\* The url arrays preloadSprites is called with.
PreloadUrls ==
    { <<>>, <<UrlA>>, <<UrlA, UrlA>>, <<UrlA, UrlTxt>>, <<UrlA, UrlB>>,
      <<UrlA, UrlB, UrlC>> }

\* preloadSprites(urls), up to its await.
ALPreloadSprites(urls) ==
    /\ unit = "AssetLoader"
    /\ ~preload.called
    /\ LET r == MapLoadSprite([cache |-> cache, loading |-> loading,
                               images |-> images, lastUse |-> lastUse],
                              <<>>, urls)
       IN  /\ cache' = r.st.cache
           /\ loading' = r.st.loading
           /\ images' = r.st.images
           /\ lastUse' = r.st.lastUse
           /\ preload' = [called |-> TRUE, items |-> r.items]
    /\ result' = NoResult
    /\ UNCHANGED <<unit, maxCacheSize, utilVars, loopVars, spVars, smVars>>

\* The state of the promise a loadSprite call returned.
ItemState(it) ==
    CASE it.kind = "invalid" -> "rejected"
      [] it.kind = "hit" -> "resolved"
      [] it.kind = "join" ->
           (IF LoadPromise(images[it.id]) = "failed" THEN "rejected"
            ELSE LoadPromise(images[it.id]))
      [] it.kind = "start" ->
           (IF images[it.id].race \in {"failed", "timeout"} THEN "rejected"
            ELSE images[it.id].race)

\* The promise preloadSprites returned: Promise.all rejects with the first
\* rejection (rethrown as 'Failed to preload sprites') and resolves when every
\* loadSprite promise has resolved.
PreloadState ==
    IF ~preload.called THEN "none"
    ELSE IF \E j \in 1..Len(preload.items) : ItemState(preload.items[j]) = "rejected"
    THEN "rejected"
    ELSE IF \A j \in 1..Len(preload.items) : ItemState(preload.items[j]) = "resolved"
    THEN "resolved"
    ELSE "pending"

\* ---------------------------------------------------------- SpriteManager
\* Faulty variant: the cached sprite is not recognised.
SMCacheHasNever(u) == FALSE

\* this.#spriteCache.has(url)
SMCacheHas(u) == MapHas(spriteCache, u)

\* this.#loadingPromises.has(url)
SMLoadingHas(u) == loadingPromises[u] # 0

\* Faulty variant: the entry inserted first is the one removed.
OldestUrlFirstInserted(c) == c[1].key

\* The for loop of #addToCache: the first entry, in Map order, whose lastUsed
\* is below every lastUsed before it and not above any after it.
OldestUrl(c) ==
    LET i == CHOOSE i \in 1..Len(c) :
                /\ \A j \in 1..Len(c) : c[i].lastUsed <= c[j].lastUsed
                /\ \A j \in 1..(i - 1) : c[j].lastUsed > c[i].lastUsed
    IN  c[i].key

\* #addToCache(url, sprite)
AddToCache(c, e, max) ==
    IF Len(c) >= max
    THEN MapSet(MapDelete(c, OldestUrl(c)), e)
    ELSE MapSet(c, e)

\* #handleError(error): every handler is invoked once, in the order of the
\* Set; what a handler throws is caught and logged, and the loop goes on.
\* counts tells how often each handler was invoked with the error before.
RECURSIVE HandleError(_, _)
HandleError(handlers, counts) ==
    IF handlers = <<>> THEN counts
    ELSE HandleError(Tail(handlers), [counts EXCEPT ![Head(handlers)] = @ + 1])

\* The Image, timer and promise one #loadSpriteInternal call creates.
\*   cache:   options.cache !== false in the call that started the load
\*   img:     the Image has fired neither event, or load, or error
\*   timer:   the setTimeout is armed, has fired, or was cleared
\*   promise: loadPromise
\*   joined:  later callers were handed loadPromise from #loadingPromises and
\*            wait for it to settle
\*   joinedCaching: one of these callers passed options with cache !== false
\*   notified: how often each handler was invoked with the error that
\*            rejected loadPromise
NewSpriteLoad(u, opt) ==
    [key |-> u, cache |-> opt, img |-> "inflight", timer |-> "armed",
     promise |-> "pending", joined |-> FALSE, joinedCaching |-> FALSE,
     notified |-> NotHandled]

\* clearTimeout(timeoutId)
ClearTimeout(timer) == IF timer = "armed" THEN "cleared" ELSE timer

\* loadSprite(url, options); opt is options.cache !== false.  An error thrown
\* by #validateUrl is caught at once and passed to #handleError.
SMLoadSprite(u, opt) ==
    /\ unit = "SpriteManager"
    /\ handled' = IF ~ValidateUrl(u) THEN HandleError(errorHandlers, NotHandled)
                   ELSE NotHandled
    /\ UNCHANGED <<unit, maxCacheSize, utilVars, loopVars, spVars, alVars, errorHandlers, now>>
    /\ IF ~ValidateUrl(u)
       THEN /\ result' = CallResult("invalid", 0)
            /\ UNCHANGED <<spriteCache, loadingPromises, spriteLoads>>
       ELSE IF opt /\ SMCacheHas(u)
       THEN /\ result' = CallResult("hit", MapGet(spriteCache, u).sprite)
            /\ spriteCache' = MapSet(spriteCache,
                                     [MapGet(spriteCache, u) EXCEPT !.lastUsed = now])
            /\ UNCHANGED <<loadingPromises, spriteLoads>>
       ELSE IF SMLoadingHas(u)
       THEN /\ result' = CallResult("join", loadingPromises[u])
            /\ spriteLoads' =
                 [spriteLoads EXCEPT
                    ![loadingPromises[u]].joined =
                        (@ \/ spriteLoads[loadingPromises[u]].promise = "pending"),
                    ![loadingPromises[u]].joinedCaching =
                        (@ \/ (opt /\ spriteLoads[loadingPromises[u]].promise = "pending"))]
            /\ UNCHANGED <<spriteCache, loadingPromises>>
       ELSE /\ spriteLoads' = Append(spriteLoads, NewSpriteLoad(u, opt))
            /\ loadingPromises' = [loadingPromises EXCEPT ![u] = Len(spriteLoads) + 1]
            /\ result' = CallResult("start", Len(spriteLoads) + 1)
            /\ UNCHANGED spriteCache

\* Faulty variant: the sprite is cached and the promise resolved whatever
\* the state of loadPromise.
SMImgOnloadAfterSettle(i) ==
    /\ unit = "SpriteManager"
    /\ i \in 1..Len(spriteLoads)
    /\ spriteLoads[i].img = "inflight"
    /\ spriteLoads' = [spriteLoads EXCEPT ![i].img = "loaded", ![i].joined = FALSE,
                                          ![i].joinedCaching = FALSE,
                                          ![i].timer = ClearTimeout(@),
                                          ![i].promise = "resolved"]
    /\ loadingPromises' = [loadingPromises EXCEPT ![spriteLoads[i].key] = 0]
    /\ spriteCache' =
         IF spriteLoads[i].cache
         THEN AddToCache(spriteCache,
                         [key |-> spriteLoads[i].key, sprite |-> i, lastUsed |-> now],
                         maxCacheSize)
         ELSE spriteCache
    /\ result' = NoResult
    /\ handled' = NotHandled
    /\ UNCHANGED <<unit, maxCacheSize, utilVars, loopVars, spVars, alVars, errorHandlers, now>>

\* image.onload: clearTimeout and resolve; when loadPromise was still pending,
\* loadSprite resumes after its await: it deletes the #loadingPromises entry of
\* the url and, unless options.cache is false, adds the sprite to the cache.
SMImgOnload(i) ==
    /\ unit = "SpriteManager"
    /\ i \in 1..Len(spriteLoads)
    /\ spriteLoads[i].img = "inflight"
    /\ spriteLoads' = [spriteLoads EXCEPT ![i].img = "loaded", ![i].joined = FALSE,
                                          ![i].joinedCaching = FALSE,
                                          ![i].timer = ClearTimeout(@),
                                          ![i].promise = Settle(@, "resolved")]
    /\ IF spriteLoads[i].promise = "pending"
       THEN /\ loadingPromises' = [loadingPromises EXCEPT ![spriteLoads[i].key] = 0]
            /\ spriteCache' =
                 IF spriteLoads[i].cache
                 THEN AddToCache(spriteCache,
                                 [key |-> spriteLoads[i].key, sprite |-> i, lastUsed |-> now],
                                 maxCacheSize)
                 ELSE spriteCache
       ELSE UNCHANGED <<loadingPromises, spriteCache>>
    /\ result' = NoResult
    /\ handled' = NotHandled
    /\ UNCHANGED <<unit, maxCacheSize, utilVars, loopVars, spVars, alVars, errorHandlers, now>>

\* image.onerror: clearTimeout and reject; the catch of the loadSprite call
\* that awaits loadPromise passes the error to #handleError and rethrows.
SMImgOnerror(i) ==
    /\ unit = "SpriteManager"
    /\ i \in 1..Len(spriteLoads)
    /\ spriteLoads[i].img = "inflight"
    /\ spriteLoads' = [spriteLoads EXCEPT ![i].img = "failed", ![i].joined = FALSE,
                                          ![i].joinedCaching = FALSE,
                                          ![i].timer = ClearTimeout(@),
                                          ![i].promise = Settle(@, "failed"),
                                          ![i].notified =
                                              IF spriteLoads[i].promise = "pending"
                                              THEN HandleError(errorHandlers, @) ELSE @]
    /\ result' = NoResult
    /\ handled' = NotHandled
    /\ UNCHANGED <<unit, maxCacheSize, utilVars, loopVars, spVars, alVars, errorHandlers, now, spriteCache, loadingPromises>>

\* The setTimeout callback of #loadSpriteInternal: it rejects loadPromise; the
\* catch of the loadSprite call that awaits it passes the error to
\* #handleError and rethrows.
SMTimeout(i) ==
    /\ unit = "SpriteManager"
    /\ i \in 1..Len(spriteLoads)
    /\ spriteLoads[i].timer = "armed"
    /\ spriteLoads' = [spriteLoads EXCEPT ![i].timer = "fired",
                                          ![i].promise = Settle(@, "timeout"),
                                          ![i].joined = FALSE,
                                          ![i].joinedCaching = FALSE,
                                          ![i].notified =
                                              IF spriteLoads[i].promise = "pending"
                                              THEN HandleError(errorHandlers, @) ELSE @]
    /\ result' = NoResult
    /\ handled' = NotHandled
    /\ UNCHANGED <<unit, maxCacheSize, utilVars, loopVars, spVars, alVars, errorHandlers, now, spriteCache, loadingPromises>>

\* Faulty variant: the pending load of the url is forgotten too.
SMRemoveFromCacheDropsLoad(u) ==
    /\ unit = "SpriteManager"
    /\ spriteCache' = MapDelete(spriteCache, u)
    /\ loadingPromises' = [loadingPromises EXCEPT ![u] = 0]
    /\ result' = CallResult("remove", IF MapHas(spriteCache, u) THEN 1 ELSE 0)
    /\ handled' = NotHandled
    /\ UNCHANGED <<unit, maxCacheSize, utilVars, loopVars, spVars, alVars, errorHandlers, now, spriteLoads>>

\* removeFromCache(url); result.id is 1 when Map.delete found the url.
SMRemoveFromCache(u) ==
    /\ unit = "SpriteManager"
    /\ spriteCache' = MapDelete(spriteCache, u)
    /\ result' = CallResult("remove", IF MapHas(spriteCache, u) THEN 1 ELSE 0)
    /\ handled' = NotHandled
    /\ UNCHANGED <<unit, maxCacheSize, utilVars, loopVars, spVars, alVars, errorHandlers, now, loadingPromises, spriteLoads>>

SMClearCache ==
    /\ unit = "SpriteManager"
    /\ spriteCache' = <<>>
    /\ loadingPromises' = [k \in SMKeys |-> 0]
    /\ result' = NoResult
    /\ handled' = NotHandled
    /\ UNCHANGED <<unit, maxCacheSize, utilVars, loopVars, spVars, alVars, errorHandlers, now, spriteLoads>>

\* onError(handler): a function is added to the Set, which holds it once;
\* anything else is ignored.
SMOnError(handler) ==
    /\ unit = "SpriteManager"
    /\ errorHandlers' =
         IF handler \in Handlers /\ \A i \in 1..Len(errorHandlers) : errorHandlers[i] # handler
         THEN Append(errorHandlers, handler)
         ELSE errorHandlers
    /\ result' = NoResult
    /\ handled' = NotHandled
    /\ UNCHANGED <<unit, maxCacheSize, utilVars, loopVars, spVars, alVars, now, spriteCache,
                   loadingPromises, spriteLoads>>

\* Date.now() moves on.
Tick ==
    /\ unit = "SpriteManager"
    /\ now < MaxClock
    /\ now' = now + 1
    /\ result' = NoResult
    /\ handled' = NotHandled
    /\ UNCHANGED <<unit, maxCacheSize, utilVars, loopVars, spVars, alVars, errorHandlers, spriteCache, loadingPromises, spriteLoads>>

SMNext ==
    \/ \E u \in Urls, opt \in BOOLEAN :
          SMLoadSprite(u, opt) /\ Len(spriteLoads') <= MaxLoads
    \/ \E i \in 1..MaxLoads : SMImgOnload(i)
    \/ \E i \in 1..MaxLoads : SMImgOnerror(i)
    \/ \E i \in 1..MaxLoads : SMTimeout(i)
    \/ \E u \in SMKeys : SMRemoveFromCache(u)
    \/ SMClearCache
    \/ Tick

\* ----------------------------------------------------------------- Sprite
\* load()
SpriteLoad(s) ==
    /\ unit = "Sprite"
    /\ s \in 1..Len(sprites)
    /\ UNCHANGED <<unit, maxCacheSize, utilVars, loopVars, alVars, smVars>>
    /\ LET src == sprites[s].src IN
       IF imageCache[src] # 0
       THEN /\ sprites' = [sprites EXCEPT ![s].image = imageCache[src],
                                          ![s].isLoaded = TRUE,
                                          ![s].disposed = FALSE]
            /\ result' = CallResult("hit", imageCache[src])
            /\ UNCHANGED <<imageCache, loadingSprites, spriteImages>>
       ELSE IF loadingSprites[src] # 0
       THEN /\ sprites' = [sprites EXCEPT ![s].awaiting = @ \cup {loadingSprites[src]},
                                          ![s].disposed = FALSE]
            /\ result' = CallResult("join", loadingSprites[src])
            /\ UNCHANGED <<imageCache, loadingSprites, spriteImages>>
       ELSE /\ spriteImages' = Append(spriteImages, [key |-> src, img |-> "inflight"])
            /\ loadingSprites' = [loadingSprites EXCEPT ![src] = Len(spriteImages) + 1]
            /\ sprites' = [sprites EXCEPT ![s].awaiting = @ \cup {Len(spriteImages) + 1},
                                          ![s].disposed = FALSE]
            /\ result' = CallResult("start", Len(spriteImages) + 1)
            /\ UNCHANGED imageCache

\* img.onload, then every load() awaiting the promise resumes.
SpriteImgOnload(i) ==
    /\ unit = "Sprite"
    /\ i \in 1..Len(spriteImages)
    /\ spriteImages[i].img = "inflight"
    /\ spriteImages' = [spriteImages EXCEPT ![i].img = "loaded"]
    /\ imageCache' = [imageCache EXCEPT ![spriteImages[i].key] = i]
    /\ loadingSprites' = [loadingSprites EXCEPT ![spriteImages[i].key] = 0]
    /\ sprites' = [s \in 1..Len(sprites) |->
                     IF i \in sprites[s].awaiting
                     THEN [sprites[s] EXCEPT !.image = i, !.isLoaded = TRUE,
                                             !.awaiting = @ \ {i}]
                     ELSE sprites[s]]
    /\ result' = NoResult
    /\ UNCHANGED <<unit, maxCacheSize, utilVars, loopVars, alVars, smVars>>

\* img.onerror, then every load() awaiting the promise throws.
SpriteImgOnerror(i) ==
    /\ unit = "Sprite"
    /\ i \in 1..Len(spriteImages)
    /\ spriteImages[i].img = "inflight"
    /\ spriteImages' = [spriteImages EXCEPT ![i].img = "failed"]
    /\ loadingSprites' = [loadingSprites EXCEPT ![spriteImages[i].key] = 0]
    /\ sprites' = [s \in 1..Len(sprites) |->
                     [sprites[s] EXCEPT !.awaiting = @ \ {i}]]
    /\ result' = NoResult
    /\ UNCHANGED <<unit, maxCacheSize, utilVars, loopVars, alVars, smVars, imageCache>>

\* static clearCache(src)
SpriteClearCacheOf(src) ==
    /\ unit = "Sprite"
    /\ imageCache' = [imageCache EXCEPT ![src] = 0]
    /\ result' = NoResult
    /\ UNCHANGED <<unit, maxCacheSize, utilVars, loopVars, alVars, smVars, loadingSprites, spriteImages, sprites>>

\* static clearCache()
SpriteClearCache ==
    /\ unit = "Sprite"
    /\ imageCache' = [k \in SpriteSrcs |-> 0]
    /\ result' = NoResult
    /\ UNCHANGED <<unit, maxCacheSize, utilVars, loopVars, alVars, smVars, loadingSprites, spriteImages, sprites>>

\* dispose()
SpriteDispose(s) ==
    /\ unit = "Sprite"
    /\ s \in 1..Len(sprites)
    /\ sprites' = [sprites EXCEPT ![s].image = 0, ![s].isLoaded = FALSE,
                                  ![s].disposed = TRUE]
    /\ result' = NoResult
    /\ UNCHANGED <<unit, maxCacheSize, utilVars, loopVars, alVars, smVars, imageCache, loadingSprites, spriteImages>>

SpriteNext ==
    \/ \E s \in 1..2 : SpriteLoad(s) /\ Len(spriteImages') <= MaxLoads
    \/ \E i \in 1..MaxLoads : SpriteImgOnload(i)
    \/ \E i \in 1..MaxLoads : SpriteImgOnerror(i)
    \/ \E src \in SpriteSrcs : SpriteClearCacheOf(src)
    \/ SpriteClearCache
    \/ \E s \in 1..2 : SpriteDispose(s)

\* ------------------------------------------------------ GameLoop, Canvas
\* config.fps of the GameLoop, options.fps of the Canvas.
Fps == 500
\* this.timeStep = 1000 / this.fps
TimeStep == 1000 \div Fps
\* frameInterval = 1000 / this.options.fps
FrameInterval == 1000 \div Fps
MAX_FRAME_SKIP == 10
\* Milliseconds between one animation frame and the next.
FrameGaps == {1, 2, 23}

\* setUpdateCallback(callback), callback a function.
GLSetUpdateCallback ==
    /\ unit = "GameLoop"
    /\ firing = 0
    /\ updateCallback' = TRUE
    /\ result' = NoResult
    /\ UNCHANGED <<unit, maxCacheSize, utilVars, alVars, smVars, spVars, isRunning, renderCallback,
                   lastTimestamp, accumulator, lastFrameTime, clock, scheduled, firing, frame>>

\* setRenderCallback(callback), callback a function.
GLSetRenderCallback ==
    /\ unit = "GameLoop"
    /\ firing = 0
    /\ renderCallback' = TRUE
    /\ result' = NoResult
    /\ UNCHANGED <<unit, maxCacheSize, utilVars, alVars, smVars, spVars, isRunning, updateCallback,
                   lastTimestamp, accumulator, lastFrameTime, clock, scheduled, firing, frame>>

\* Faulty variant: start() does not look at the callbacks.
GLStartUnchecked ==
    /\ unit = "GameLoop"
    /\ firing = 0
    /\ UNCHANGED <<unit, maxCacheSize, utilVars, alVars, smVars, spVars, updateCallback, renderCallback,
                   accumulator, lastFrameTime, clock, firing, frame>>
    /\ IF isRunning
       THEN /\ result' = CallResult("running", 0)
            /\ UNCHANGED <<isRunning, lastTimestamp, scheduled>>
       ELSE /\ isRunning' = TRUE
            /\ lastTimestamp' = clock
            /\ scheduled' = scheduled + 1
            /\ result' = CallResult("started", 0)

\* GameLoop.start(): result.kind tells whether it threw, returned because the
\* loop is running, or requested an animation frame.
GLStart ==
    /\ unit = "GameLoop"
    /\ firing = 0
    /\ UNCHANGED <<unit, maxCacheSize, utilVars, alVars, smVars, spVars, updateCallback, renderCallback,
                   accumulator, lastFrameTime, clock, firing, frame>>
    /\ IF ~updateCallback \/ ~renderCallback
       THEN /\ result' = CallResult("throw", 0)
            /\ UNCHANGED <<isRunning, lastTimestamp, scheduled>>
       ELSE IF isRunning
       THEN /\ result' = CallResult("running", 0)
            /\ UNCHANGED <<isRunning, lastTimestamp, scheduled>>
       ELSE /\ isRunning' = TRUE
            /\ lastTimestamp' = clock
            /\ scheduled' = scheduled + 1
            /\ result' = CallResult("started", 0)

\* GameLoop.stop()
GLStop ==
    /\ unit = "GameLoop"
    /\ firing = 0
    /\ isRunning' = FALSE
    /\ result' = NoResult
    /\ UNCHANGED <<unit, maxCacheSize, utilVars, alVars, smVars, spVars, updateCallback, renderCallback,
                   lastTimestamp, accumulator, lastFrameTime, clock, scheduled, firing, frame>>

\* The browser starts an animation frame d ms after the one before: the
\* callbacks requested so far will run, each with the frame's timestamp.
BeginFrame(d) ==
    /\ unit \in {"GameLoop", "Canvas"}
    /\ firing = 0
    /\ scheduled > 0
    /\ clock' = clock + d
    /\ firing' = scheduled
    /\ scheduled' = 0
    /\ result' = NoResult
    /\ UNCHANGED <<unit, maxCacheSize, utilVars, alVars, smVars, spVars, isRunning, updateCallback,
                   renderCallback, lastTimestamp, accumulator, lastFrameTime, frame>>

\* Faulty variant: the while loop runs until the accumulator is used up.
RECURSIVE UpdateLoopUncapped(_, _)
UpdateLoopUncapped(acc, calls) ==
    IF acc >= TimeStep
    THEN UpdateLoopUncapped(acc - TimeStep, Append(calls, UpdateCall(TimeStep)))
    ELSE [accumulator |-> acc, updates |-> Len(calls), calls |-> calls]

\* Faulty variant: one update with all the time that has passed.
UpdateLoopVariableStep(acc, calls) ==
    IF acc >= TimeStep
    THEN [accumulator |-> 0, updates |-> 1, calls |-> <<UpdateCall(acc)>>]
    ELSE [accumulator |-> acc, updates |-> 0, calls |-> calls]

\* The while loop of GameLoop.loop when no update callback throws: the
\* accumulator it leaves, the number of update calls it made and the calls,
\* given the calls made so far in the frame.
RECURSIVE UpdateLoop(_, _)
UpdateLoop(acc, calls) ==
    IF acc >= TimeStep /\ Len(calls) < MAX_FRAME_SKIP
    THEN UpdateLoop(acc - TimeStep, Append(calls, UpdateCall(TimeStep)))
    ELSE [accumulator |-> acc, updates |-> Len(calls), calls |-> calls]

\* Faulty variant: an error of a callback is logged and the loop goes on.
GLLoopIgnoresErrors(throws) ==
    /\ unit = "GameLoop"
    /\ firing > 0
    /\ firing' = firing - 1
    /\ result' = NoResult
    /\ UNCHANGED <<unit, maxCacheSize, utilVars, alVars, smVars, spVars, updateCallback, renderCallback,
                   lastFrameTime, clock, isRunning>>
    /\ IF ~isRunning
       THEN /\ frame' = NoFrame
            /\ UNCHANGED <<lastTimestamp, accumulator, scheduled>>
       ELSE LET acc == accumulator + (clock - lastTimestamp)
                u == UpdateLoop(acc, <<>>)
            IN  /\ lastTimestamp' = clock
                /\ accumulator' = u.accumulator
                /\ frame' = [updates |-> u.updates, renders |-> 1,
                             threw |-> (throws = "render" \/ (throws = "update" /\ acc >= TimeStep)),
                             calls |-> Append(u.calls, RenderCall(u.accumulator))]
                /\ scheduled' = scheduled + 1

\* Faulty variant: loop does not look at isRunning.
GLLoopAfterStop(throws) ==
    /\ unit = "GameLoop"
    /\ firing > 0
    /\ firing' = firing - 1
    /\ result' = NoResult
    /\ UNCHANGED <<unit, maxCacheSize, utilVars, alVars, smVars, spVars, updateCallback, renderCallback,
                   lastFrameTime, clock, isRunning>>
    /\ LET acc == accumulator + (clock - lastTimestamp)
           u == UpdateLoop(acc, <<>>)
       IN  /\ lastTimestamp' = clock
           /\ accumulator' = u.accumulator
           /\ frame' = [updates |-> u.updates, renders |-> 1, threw |-> FALSE,
                        calls |-> Append(u.calls, RenderCall(u.accumulator))]
           /\ scheduled' = scheduled + 1

\* GameLoop.loop(timestamp), one callback of the current frame.  throws names
\* the user callback that throws when called in this frame.
GLLoop(throws) ==
    /\ unit = "GameLoop"
    /\ firing > 0
    /\ firing' = firing - 1
    /\ result' = NoResult
    /\ UNCHANGED <<unit, maxCacheSize, utilVars, alVars, smVars, spVars, updateCallback, renderCallback,
                   lastFrameTime, clock>>
    /\ IF ~isRunning
       THEN /\ frame' = NoFrame
            /\ UNCHANGED <<isRunning, lastTimestamp, accumulator, scheduled>>
       ELSE LET acc == accumulator + (clock - lastTimestamp)
                u == UpdateLoop(acc, <<>>)
            IN  /\ lastTimestamp' = clock
                /\ IF throws = "update" /\ acc >= TimeStep
                   THEN /\ accumulator' = acc
                        /\ isRunning' = FALSE
                        /\ frame' = [updates |-> 1, renders |-> 0, threw |-> TRUE,
                                     calls |-> <<UpdateCall(TimeStep)>>]
                        /\ UNCHANGED scheduled
                   ELSE IF throws = "render"
                   THEN /\ accumulator' = u.accumulator
                        /\ isRunning' = FALSE
                        /\ frame' = [updates |-> u.updates, renders |-> 1, threw |-> TRUE,
                                     calls |-> Append(u.calls, RenderCall(u.accumulator))]
                        /\ UNCHANGED scheduled
                   ELSE /\ accumulator' = u.accumulator
                        /\ frame' = [updates |-> u.updates, renders |-> 1, threw |-> FALSE,
                                     calls |-> Append(u.calls, RenderCall(u.accumulator))]
                        /\ scheduled' = scheduled + 1
                        /\ UNCHANGED isRunning

\* Canvas.start()
CanvasStart ==
    /\ unit = "Canvas"
    /\ firing = 0
    /\ UNCHANGED <<unit, maxCacheSize, utilVars, alVars, smVars, spVars, updateCallback, renderCallback,
                   lastTimestamp, accumulator, clock, firing, frame>>
    /\ IF isRunning
       THEN /\ result' = CallResult("running", 0)
            /\ UNCHANGED <<isRunning, lastFrameTime, scheduled>>
       ELSE /\ isRunning' = TRUE
            /\ lastFrameTime' = clock
            /\ scheduled' = scheduled + 1
            /\ result' = CallResult("started", 0)

\* Canvas.stop()
CanvasStop ==
    /\ unit = "Canvas"
    /\ firing = 0
    /\ isRunning' = FALSE
    /\ result' = NoResult
    /\ UNCHANGED <<unit, maxCacheSize, utilVars, alVars, smVars, spVars, updateCallback, renderCallback,
                   lastTimestamp, accumulator, lastFrameTime, clock, scheduled, firing, frame>>

\* Faulty variant: Canvas.render logs the error and does not stop.
CanvasGameLoopKeepsRunning(throws) ==
    /\ unit = "Canvas"
    /\ firing > 0
    /\ firing' = firing - 1
    /\ result' = NoResult
    /\ UNCHANGED <<unit, maxCacheSize, utilVars, alVars, smVars, spVars, updateCallback, renderCallback,
                   lastTimestamp, accumulator, clock, isRunning>>
    /\ IF ~isRunning
       THEN /\ frame' = NoFrame
            /\ UNCHANGED <<lastFrameTime, scheduled>>
       ELSE LET deltaTime == clock - lastFrameTime IN
            IF deltaTime >= FrameInterval
            THEN IF throws = "update"
                 THEN /\ frame' = [updates |-> 1, renders |-> 0, threw |-> TRUE,
                                   calls |-> <<UpdateCall(deltaTime)>>]
                      /\ UNCHANGED <<lastFrameTime, scheduled>>
                 ELSE /\ lastFrameTime' = clock - (deltaTime % FrameInterval)
                      /\ frame' = [updates |-> 1, renders |-> 1, threw |-> throws = "render",
                                   calls |-> <<UpdateCall(deltaTime), RenderCall(0)>>]
                      /\ scheduled' = scheduled + 1
            ELSE /\ frame' = NoFrame
                 /\ scheduled' = scheduled + 1
                 /\ UNCHANGED lastFrameTime

\* Canvas.gameLoop(currentTime), one callback of the current frame.  throws
\* names the method of a queued object that throws when called in this frame:
\* an error in update leaves gameLoop, an error in render is caught by
\* Canvas.render, which calls stop().
CanvasGameLoop(throws) ==
    /\ unit = "Canvas"
    /\ firing > 0
    /\ firing' = firing - 1
    /\ result' = NoResult
    /\ UNCHANGED <<unit, maxCacheSize, utilVars, alVars, smVars, spVars, updateCallback, renderCallback,
                   lastTimestamp, accumulator, clock>>
    /\ IF ~isRunning
       THEN /\ frame' = NoFrame
            /\ UNCHANGED <<isRunning, lastFrameTime, scheduled>>
       ELSE LET deltaTime == clock - lastFrameTime IN
            IF deltaTime >= FrameInterval
            THEN IF throws = "update"
                 THEN /\ frame' = [updates |-> 1, renders |-> 0, threw |-> TRUE,
                                   calls |-> <<UpdateCall(deltaTime)>>]
                      /\ UNCHANGED <<isRunning, lastFrameTime, scheduled>>
                 ELSE /\ isRunning' = (throws # "render")
                      /\ lastFrameTime' = clock - (deltaTime % FrameInterval)
                      /\ frame' = [updates |-> 1, renders |-> 1, threw |-> throws = "render",
                                   calls |-> <<UpdateCall(deltaTime), RenderCall(0)>>]
                      /\ scheduled' = scheduled + 1
            ELSE /\ frame' = NoFrame
                 /\ scheduled' = scheduled + 1
                 /\ UNCHANGED <<isRunning, lastFrameTime>>

Next == ALNext \/ SMNext \/ SpriteNext

Spec == Init /\ [][Next]_vars

\* Loads that all succeed in time, one after another or overlapping, with no
\* clearCache: the runs in which only the size limit removes a cached key.
NextLoads ==
    \/ \E u \in ALKeys : ALLoadSprite(u) /\ Len(images') <= MaxSeqLoads
    \/ \E i \in 1..MaxSeqLoads : ALImgOnload(i)
    \/ \E u \in SMKeys : SMLoadSprite(u, TRUE) /\ Len(spriteLoads') <= MaxSeqLoads
    \/ \E i \in 1..MaxSeqLoads : SMImgOnload(i)
    \/ Tick

InitLoads == Init /\ unit \in {"AssetLoader", "SpriteManager"}

SpecLoads == InitLoads /\ [][NextLoads]_vars

\* One preloadSprites call on an AssetLoader, among loadSprite calls, image
\* events and timeouts.
NextPreload ==
    \/ \E urls \in PreloadUrls : ALPreloadSprites(urls) /\ Len(images') <= MaxSeqLoads
    \/ \E u \in ALKeys : ALLoadSprite(u) /\ Len(images') <= MaxSeqLoads
    \/ \E i \in 1..MaxSeqLoads : ALImgOnload(i)
    \/ \E i \in 1..MaxSeqLoads : ALImgOnerror(i)
    \/ \E i \in 1..MaxSeqLoads : ALTimeout(i)

InitPreload == Init /\ unit = "AssetLoader"

SpecPreload == InitPreload /\ [][NextPreload]_vars

\* A GameLoop or a Canvas under start, stop and animation frames.
NextLoop ==
    \/ GLSetUpdateCallback
    \/ GLSetRenderCallback
    \/ GLStart /\ scheduled' <= MaxScheduled
    \/ GLStop
    \/ \E d \in FrameGaps : BeginFrame(d) /\ clock' <= MaxTime
    \/ \E throws \in {"none", "update", "render"} : GLLoop(throws)
    \/ CanvasStart /\ scheduled' <= MaxScheduled
    \/ CanvasStop
    \/ \E throws \in {"none", "update", "render"} : CanvasGameLoop(throws)

InitLoop == InitOf({"GameLoop", "Canvas"})

SpecLoop == InitLoop /\ [][NextLoop]_vars

\* A call of clamp with the arguments chosen initially.
ClampCall ==
    /\ unit = "clamp"
    /\ returned = NoReturn
    /\ returned' = Clamp(args[1], args[2], args[3])
    /\ UNCHANGED <<unit, result, maxCacheSize, alVars, smVars, spVars, loopVars, args, monitor>>

NextClamp == ClampCall

InitClamp == InitOf({"clamp"})

SpecClamp == InitClamp /\ [][NextClamp]_vars

\* A call of AssetLoader._validateAssetUrl with the url chosen initially.
ValidateAssetUrlCall ==
    /\ unit = "_validateAssetUrl"
    /\ returned = NoReturn
    /\ returned' = IF Falsy(args) THEN Throw("Invalid asset URL")
                   ELSE IF ~ValidateAssetUrl(args) THEN Throw("Unsupported file format")
                   ELSE Return(NotANumber)
    /\ UNCHANGED <<unit, result, maxCacheSize, alVars, smVars, spVars, loopVars, args, monitor>>

\* A call of SpriteManager.#validateUrl with the url chosen initially.
ValidateUrlCall ==
    /\ unit = "#validateUrl"
    /\ returned = NoReturn
    /\ returned' = IF Falsy(args) THEN Throw("Invalid sprite URL")
                   ELSE IF ~ValidateUrl(args) THEN Throw("Unsupported sprite format")
                   ELSE Return(NotANumber)
    /\ UNCHANGED <<unit, result, maxCacheSize, alVars, smVars, spVars, loopVars, args, monitor>>

NextValidate == ValidateAssetUrlCall \/ ValidateUrlCall

InitValidate == InitOf({"_validateAssetUrl", "#validateUrl"})

SpecValidate == InitValidate /\ [][NextValidate]_vars

\* A SpriteManager under loadSprite calls with default options, load events
\* and clearCache.
NextClear ==
    \/ \E u \in SMKeys : SMLoadSprite(u, TRUE) /\ Len(spriteLoads') <= MaxSeqLoads
    \/ \E i \in 1..MaxSeqLoads : SMImgOnload(i)
    \/ SMClearCache
    \/ Tick

InitClear == InitOf({"SpriteManager"})

SpecClear == InitClear /\ [][NextClear]_vars

\* A SpriteManager under loadSprite, onError, image events and timeouts.
ErrorUrls == {UrlA, UrlB, UrlTxt}

NextErrors ==
    \/ \E u \in ErrorUrls, opt \in BOOLEAN :
          SMLoadSprite(u, opt) /\ Len(spriteLoads') <= MaxLoads
    \/ \E i \in 1..MaxLoads : SMImgOnload(i)
    \/ \E i \in 1..MaxLoads : SMImgOnerror(i)
    \/ \E i \in 1..MaxLoads : SMTimeout(i)
    \/ \E handler \in {"plain", "throwing", "notAFunction"} : SMOnError(handler)

InitErrors == InitOf({"SpriteManager"})

SpecErrors == InitErrors /\ [][NextErrors]_vars

\* Milliseconds between one call of the monitor and the next.
PerfGaps == {1, 7}

\* performanceMonitor.startFrame()
PerfStartFrame ==
    /\ unit = "Performance"
    /\ LET r == StartFrame(monitor, clock)
       IN  /\ monitor' = [r.monitor EXCEPT !.startedAt = clock]
           /\ returned' = r.returned
    /\ result' = CallResult("startFrame", 0)
    /\ UNCHANGED <<unit, maxCacheSize, alVars, smVars, spVars, loopVars, args>>

\* performanceMonitor.endFrame()
PerfEndFrame ==
    /\ unit = "Performance"
    /\ LET r == EndFrame(monitor, clock)
       IN  /\ monitor' = r.monitor
           /\ returned' = r.returned
    /\ result' = CallResult("endFrame", 0)
    /\ UNCHANGED <<unit, maxCacheSize, alVars, smVars, spVars, loopVars, args>>

\* performanceMonitor.reset()
PerfReset ==
    /\ unit = "Performance"
    /\ LET r == Reset(monitor, clock)
       IN  /\ monitor' = r.monitor
           /\ returned' = r.returned
    /\ result' = CallResult("reset", 0)
    /\ UNCHANGED <<unit, maxCacheSize, alVars, smVars, spVars, loopVars, args>>

\* performance.now() moves on by d ms.
PerfTick(d) ==
    /\ unit = "Performance"
    /\ clock' = clock + d
    /\ result' = NoResult
    /\ returned' = NoReturn
    /\ UNCHANGED <<unit, maxCacheSize, alVars, smVars, spVars, args, monitor, isRunning,
                   updateCallback, renderCallback, lastTimestamp, accumulator, lastFrameTime,
                   scheduled, firing, frame>>

NextPerformance ==
    \/ PerfStartFrame
    \/ PerfEndFrame
    \/ PerfReset
    \/ \E d \in PerfGaps : PerfTick(d) /\ clock' <= MaxPerfTime

InitPerformance == InitOf({"Performance"})

SpecPerformance == InitPerformance /\ [][NextPerformance]_vars

\* ================================================================= claims
\* Image fetches started so far for a key.
ALFetches(k) == Cardinality({i \in 1..Len(images) : images[i].key = k})
SMFetches(k) == Cardinality({i \in 1..Len(spriteLoads) : spriteLoads[i].key = k})
SpriteFetches(k) == Cardinality({i \in 1..Len(spriteImages) : spriteImages[i].key = k})

\* C1: while a load of key k is registered as pending, no step starts another
\* Image fetch for k, and a loadSprite(k) / load() call that finds k not cached
\* joins that load; the call that finds k neither cached nor pending starts
\* exactly one fetch (AssetLoader, SpriteManager, Sprite).
C1_OneFetchPerPendingLoad ==
    [][ /\ \A k \in ALKeys :
            /\ loading[k] # 0 => ALFetches(k)' = ALFetches(k)
            /\ (ALLoadSprite(k) /\ ~MapHas(cache, k)) =>
                 IF loading[k] # 0
                 THEN result' = CallResult("join", loading[k])
                 ELSE /\ ALFetches(k)' = ALFetches(k) + 1
                      /\ result' = CallResult("start", Len(images) + 1)
        /\ \A k \in SMKeys :
            /\ loadingPromises[k] # 0 => SMFetches(k)' = SMFetches(k)
            /\ \A opt \in BOOLEAN :
                 (SMLoadSprite(k, opt) /\ ~(opt /\ MapHas(spriteCache, k))) =>
                    IF loadingPromises[k] # 0
                    THEN result' = CallResult("join", loadingPromises[k])
                    ELSE /\ SMFetches(k)' = SMFetches(k) + 1
                         /\ result' = CallResult("start", Len(spriteLoads) + 1)
        /\ \A k \in SpriteSrcs :
            /\ loadingSprites[k] # 0 => SpriteFetches(k)' = SpriteFetches(k)
            /\ \A s \in 1..Len(sprites) :
                 (SpriteLoad(s) /\ sprites[s].src = k /\ imageCache[k] = 0) =>
                    IF loadingSprites[k] # 0
                    THEN result' = CallResult("join", loadingSprites[k])
                    ELSE /\ SpriteFetches(k)' = SpriteFetches(k) + 1
                         /\ result' = CallResult("start", Len(spriteImages) + 1)
      ]_vars

\* A second caller has joined the pending load of a key fetched once.
C1_Witness ==
    /\ unit = "AssetLoader"
    /\ result.kind = "join"
    /\ images[result.id].joined
    /\ images[result.id].race = "pending"
    /\ ALFetches(images[result.id].key) = 1

\* C2: at most one Image that was started and has fired neither load nor error
\* exists per key (AssetLoader and SpriteManager).
C2_AtMostOneInflightPerKey ==
    /\ \A k \in ALKeys :
         Cardinality({i \in 1..Len(images) :
                        images[i].key = k /\ images[i].img = "inflight"}) <= 1
    /\ \A k \in SMKeys :
         Cardinality({i \in 1..Len(spriteLoads) :
                        spriteLoads[i].key = k /\ spriteLoads[i].img = "inflight"}) <= 1

\* C3: once k is cached, a loadSprite(k) call (default options) starts no
\* Image fetch and returns the handle the cache holds for k, and that handle
\* stays the same one for as long as k stays cached (AssetLoader and
\* SpriteManager).
C3_CacheHitSameHandle ==
    [][ /\ \A k \in ALKeys :
            /\ (MapHas(cache, k) /\ ALLoadSprite(k)) =>
                 /\ result' = CallResult("hit", MapGet(cache, k).img)
                 /\ images' = images
                 /\ loading' = loading
            /\ (MapHas(cache, k) /\ MapHas(cache', k)) =>
                 MapGet(cache', k).img = MapGet(cache, k).img
        /\ \A k \in SMKeys :
            /\ (MapHas(spriteCache, k) /\ SMLoadSprite(k, TRUE)) =>
                 /\ result' = CallResult("hit", MapGet(spriteCache, k).sprite)
                 /\ spriteLoads' = spriteLoads
                 /\ loadingPromises' = loadingPromises
            /\ (MapHas(spriteCache, k) /\ MapHas(spriteCache', k)) =>
                 MapGet(spriteCache', k).sprite = MapGet(spriteCache, k).sprite
      ]_vars

\* C4: the number of cached keys never exceeds maxCacheSize (AssetLoader and
\* SpriteManager), after every call and every callback.
C4_CacheSizeBounded ==
    /\ unit = "AssetLoader" => Len(cache) <= maxCacheSize
    /\ unit = "SpriteManager" => Len(spriteCache) <= maxCacheSize

\* More distinct keys have loaded than the cache may hold, and the cache is full.
C4_Witness ==
    /\ unit = "AssetLoader"
    /\ Len(cache) = maxCacheSize
    /\ Cardinality({images[i].key : i \in {j \in 1..Len(images) : images[j].img = "loaded"}})
         > maxCacheSize

\* C5: in AssetLoader the key an insertion evicts is the least recently used
\* one, a cache hit counting as a use; with maxCacheSize = 2, after loading a,
\* then b, then a cache hit of a, loading c leaves exactly {a, c} cached.
C5_EvictsLeastRecentlyUsed ==
    [][ \A i \in 1..Len(images) :
          ALImgOnload(i) =>
            /\ \A k \in MapKeys(cache) \ MapKeys(cache') : k = Head(lastUse)
            /\ ( /\ maxCacheSize = 2
                 /\ images[i].key = UrlC
                 /\ MapKeys(cache) = {UrlA, UrlB}
                 /\ lastUse = <<UrlB, UrlA>> ) => MapKeys(cache') = {UrlA, UrlC}
      ]_vars

C7_LateLoadDiscarded ==
    [][ \A i \in 1..Len(images) :
          (images[i].race = "timeout" /\ ALImgOnload(i)) =>
             /\ cache' = cache
             /\ loading' = loading
      ]_vars

\* C8: in AssetLoader a load whose promise has settled for its caller (success,
\* failure or timeout) is no longer registered in the loading map.
C8_SettledLoadNotRegistered ==
    \A i \in 1..Len(images) :
       images[i].race # "pending" => loading[images[i].key] # i

\* C9: in SpriteManager a load rejected by failure or timeout is no longer
\* registered in the loading map, and no later loadSprite is handed its
\* rejected promise.
C9_RejectedLoadNotRegistered ==
    /\ \A i \in 1..Len(spriteLoads) :
         spriteLoads[i].promise \in {"failed", "timeout"} =>
            loadingPromises[spriteLoads[i].key] # i
    /\ (unit = "SpriteManager" /\ result.kind = "join") =>
          spriteLoads[result.id].promise \notin {"failed", "timeout"}

\* C10: in AssetLoader the error event of an image, fired before the timeout,
\* rejects the caller's promise with the load failure, removes the key from
\* the loading map and leaves the cache as it is; the next loadSprite of the
\* key, not cached, starts a new Image.
C10_ErrorReleasesKey ==
    [][ /\ \A i \in 1..Len(images) :
            (images[i].race = "pending" /\ ALImgOnerror(i)) =>
               /\ images'[i].race = "failed"
               /\ loading'[images[i].key] = 0
               /\ cache' = cache
        /\ \A i \in 1..Len(images) :
            images[i].img = "failed" => loading[images[i].key] # i
        /\ \A k \in ALKeys :
            ( /\ ALLoadSprite(k)
              /\ ~MapHas(cache, k)
              /\ loading[k] = 0 ) =>
                 /\ result' = CallResult("start", Len(images) + 1)
                 /\ images'[Len(images) + 1].img = "inflight"
      ]_vars

\* After a failed load of a key, loadSprite has started a new Image for it.
C10_Witness ==
    /\ unit = "AssetLoader"
    /\ result.kind = "start"
    /\ \E i \in 1..Len(images) :
         /\ i < result.id
         /\ images[i].key = images[result.id].key
         /\ images[i].race = "failed"
         /\ loading[images[i].key] = result.id

\* C11: in AssetLoader the callers of loadSprite(k) that share one pending load
\* settle the same way: when the timeout rejects the promise of the caller that
\* started the load, no caller that joined it is left waiting, and when the
\* Image's load event resolves the callers that joined, the starter's promise
\* is resolved too.
C11_JoinersSettleLikeStarter ==
    [][ \A i \in 1..Len(images) :
          /\ (ALTimeout(i) /\ images[i].joined) => ~images'[i].joined
          /\ (ALImgOnload(i) /\ images[i].joined) => images'[i].race = "resolved"
      ]_vars

\* The arguments the validation refuses: '', null, undefined and a url with an
\* unsupported extension.
InvalidUrls == {UrlEmpty, JsNull, JsUndefined, UrlTxt}

\* C12: loadSprite called with '', null, undefined or a url with an
\* unsupported extension throws the validation error: it creates no Image and
\* leaves the cache and the loading map as they are (AssetLoader and
\* SpriteManager).
C12_InvalidUrlRejected ==
    [][ \A u \in InvalidUrls :
          /\ ALLoadSprite(u) =>
               /\ result' = CallResult("invalid", 0)
               /\ UNCHANGED <<cache, loading, images>>
          /\ \A opt \in BOOLEAN :
               SMLoadSprite(u, opt) =>
                  /\ result' = CallResult("invalid", 0)
                  /\ UNCHANGED <<spriteCache, loadingPromises, spriteLoads>>
      ]_vars

\* An invalid url was refused by an AssetLoader that holds a cached key and a
\* pending load.
C12_Witness ==
    /\ unit = "AssetLoader"
    /\ result.kind = "invalid"
    /\ Len(cache) > 0
    /\ \E k \in ALKeys : loading[k] # 0

\* C13: the promise of preloadSprites(urls) never rejects, and it settles only
\* when the load of every url has settled.
C13_PreloadNeverRejects ==
    /\ PreloadState # "rejected"
    /\ PreloadState = "resolved" =>
         \A j \in 1..Len(preload.items) : ItemState(preload.items[j]) # "pending"

\* C14: clearCache() leaves the cache and the loading map empty, and the load
\* or error event of an Image that was in flight when clearCache was called
\* changes neither map (AssetLoader and SpriteManager).  Such an Image is one
\* in flight whose load the loading map no longer registers: only clearCache
\* unregisters a load whose Image has not fired, unless an earlier completion
\* of this kind already removed the entry of a newer load.
C14_StaleCompletionNoOp ==
    [][ /\ ALClearCache => (cache' = <<>> /\ \A k \in ALKeys : loading'[k] = 0)
        /\ SMClearCache =>
             (spriteCache' = <<>> /\ \A k \in SMKeys : loadingPromises'[k] = 0)
        /\ \A i \in 1..Len(images) :
             ( /\ images[i].img = "inflight"
               /\ loading[images[i].key] # i
               /\ (ALImgOnload(i) \/ ALImgOnerror(i)) ) =>
                  (cache' = cache /\ loading' = loading)
        /\ \A i \in 1..Len(spriteLoads) :
             ( /\ spriteLoads[i].img = "inflight"
               /\ spriteLoads[i].promise = "pending"
               /\ loadingPromises[spriteLoads[i].key] # i
               /\ (SMImgOnload(i) \/ SMImgOnerror(i)) ) =>
                  (spriteCache' = spriteCache /\ loadingPromises' = loadingPromises)
      ]_vars

\* C15: when the load event of an Image fires before any failure or timeout
\* of its load (caching enabled), the promise of the loadSprite call resolves,
\* the key is cached with the loaded handle and the key is not in the loading
\* map (AssetLoader and SpriteManager).
C15_LoadCachesAndReleases ==
    [][ /\ \A i \in 1..Len(images) :
             (images[i].race = "pending" /\ ALImgOnload(i)) =>
                /\ images'[i].race = "resolved"
                /\ MapHas(cache', images[i].key)
                /\ MapGet(cache', images[i].key).img = i
                /\ loading'[images[i].key] = 0
        /\ \A i \in 1..Len(spriteLoads) :
             ( /\ spriteLoads[i].promise = "pending"
               /\ spriteLoads[i].cache
               /\ SMImgOnload(i) ) =>
                /\ spriteLoads'[i].promise = "resolved"
                /\ MapHas(spriteCache', spriteLoads[i].key)
                /\ MapGet(spriteCache', spriteLoads[i].key).sprite = i
                /\ loadingPromises'[spriteLoads[i].key] = 0
      ]_vars

\* A second key has loaded into a full cache of size 1: it is cached, its
\* promise resolved, and it is not in the loading map.
C15_Witness ==
    /\ unit = "AssetLoader"
    /\ maxCacheSize = 1
    /\ Len(images) = 2
    /\ images[1].img = "loaded"
    /\ images[1].key # images[2].key
    /\ images[2].img = "loaded"
    /\ images[2].race = "resolved"
    /\ MapHas(cache, images[2].key)
    /\ MapGet(cache, images[2].key).img = 2
    /\ loading[images[2].key] = 0

\* C16: AssetLoader.isCached(k) returns true exactly when k is a key of the
\* cache, and the call leaves the cache (its entries and their order) and the
\* loading map as they were.
C16_IsCachedPure ==
    [][ \A u \in Urls :
          ALIsCached(u) =>
             /\ result'.kind = "isCached"
             /\ (result'.id = 1) <=> (\E j \in 1..Len(cache) : cache[j].key = u)
             /\ cache' = cache
             /\ loading' = loading
      ]_vars

\* isCached returned true on a cache that holds two keys.
C16_Witness ==
    /\ unit = "AssetLoader"
    /\ result = CallResult("isCached", 1)
    /\ Len(cache) = 2
    /\ \E j \in 1..Len(images) :
         /\ images[j].key = cache[1].key
         /\ images[j].img = "loaded"

C19_AtMostOneLoopScheduled ==
    [][ /\ scheduled' + firing' <= 1
        /\ (isRunning /\ (GLStart \/ CanvasStart)) => scheduled' = scheduled
      ]_vars

\* C20: one GameLoop.loop call invokes the update callback at most
\* MAX_FRAME_SKIP times, whatever time has passed since the frame before.
C20_UpdatesPerFrameBounded ==
    unit = "GameLoop" => frame.updates <= MAX_FRAME_SKIP

\* A loop call after a long gap made MAX_FRAME_SKIP updates and left more than
\* a time step in the accumulator.
C20_Witness ==
    /\ unit = "GameLoop"
    /\ frame.updates = MAX_FRAME_SKIP
    /\ ~frame.threw
    /\ accumulator >= TimeStep

\* C21: when the update callback or the render callback throws during
\* GameLoop.loop, the loop stops: isRunning is false afterwards, the call
\* requests no animation frame, and after an error of the update callback the
\* render callback is not invoked in that call.
C21_CallbackErrorStopsLoop ==
    [][ \A throws \in {"update", "render"} :
          (GLLoop(throws) /\ frame'.threw) =>
             /\ isRunning' = FALSE
             /\ scheduled' = scheduled
             /\ throws = "update" => frame'.renders = 0
      ]_vars

\* An update callback threw in the only running loop: the loop is stopped and
\* no frame is requested.
C21_Witness ==
    /\ unit = "GameLoop"
    /\ frame.threw
    /\ frame.renders = 0
    /\ ~isRunning
    /\ scheduled = 0
    /\ firing = 0

C23_ClampContract ==
    (unit = "clamp" /\ returned # NoReturn) =>
        LET value == args[1]
            min == args[2]
            max == args[3]
            r == returned.value
        IN  IF NumberIsFinite(value) /\ NumberIsFinite(min) /\ NumberIsFinite(max)
            THEN min.n <= max.n =>
                   /\ returned.kind = "return"
                   /\ NumberIsFinite(r)
                   /\ min.n <= r.n /\ r.n <= max.n
                   /\ (min.n <= value.n /\ value.n <= max.n) => r = value
                   /\ value.n < min.n => r = min
                   /\ value.n > max.n => r = max
            ELSE returned = Throw("TypeError")

\* clamp returned max for a value above a range of more than one number.
C23_Witness ==
    /\ unit = "clamp"
    /\ returned.kind = "return"
    /\ NumberIsFinite(args[1]) /\ NumberIsFinite(args[2]) /\ NumberIsFinite(args[3])
    /\ args[2].n < args[3].n
    /\ args[1].n > args[3].n
    /\ returned.value = args[3]

\* The cached key with the smallest lastUsed, the one inserted first among
\* those with that lastUsed.
SmallestLastUsed(c) ==
    LET i == CHOOSE i \in 1..Len(c) :
                \A j \in 1..Len(c) :
                    \/ j = i
                    \/ c[i].lastUsed < c[j].lastUsed
                    \/ c[i].lastUsed = c[j].lastUsed /\ i < j
    IN  c[i].key

\* C24: when SpriteManager inserts a sprite while the cache holds
\* maxCacheSize entries or more, the entry it removes is the one with the
\* smallest lastUsed, the earliest inserted among equals; lastUsed is the time
\* of the load or of the latest cache hit.  With maxCacheSize = 2 and a cached
\* before b but used after it, the insertion of c leaves exactly {a, c}.
C24_EvictsSmallestLastUsed ==
    [][ \A i \in 1..Len(spriteLoads) :
          ( /\ SMImgOnload(i)
            /\ spriteLoads[i].promise = "pending"
            /\ spriteLoads[i].cache
            /\ Len(spriteCache) >= maxCacheSize ) =>
             LET k == spriteLoads[i].key
                 old == SmallestLastUsed(spriteCache)
             IN  /\ MapKeys(spriteCache') = (MapKeys(spriteCache) \ {old}) \cup {k}
                 /\ \A j \in 1..Len(spriteCache') :
                      spriteCache'[j].key # k =>
                         \E h \in 1..Len(spriteCache) : spriteCache[h] = spriteCache'[j]
                 /\ MapGet(spriteCache', k).lastUsed = now
                 /\ ( /\ maxCacheSize = 2
                      /\ k = UrlC
                      /\ Len(spriteCache) = 2
                      /\ spriteCache[1].key = UrlA
                      /\ spriteCache[2].key = UrlB
                      /\ spriteCache[1].lastUsed > spriteCache[2].lastUsed )
                    => MapKeys(spriteCache') = {UrlA, UrlC}
      ]_vars

\* a, b and c were loaded in this order into a cache of two entries, a was
\* used at time 2, and a and c are the cached ones.
C24_Witness ==
    /\ unit = "SpriteManager"
    /\ maxCacheSize = 2
    /\ Len(spriteLoads) = 3
    /\ spriteLoads[1].key = UrlA /\ spriteLoads[2].key = UrlB /\ spriteLoads[3].key = UrlC
    /\ \A i \in 1..3 : spriteLoads[i].img = "loaded"
    /\ Len(spriteCache) = 2
    /\ spriteCache[1] = [key |-> UrlA, sprite |-> 1, lastUsed |-> 2]
    /\ spriteCache[2].key = UrlC
    /\ spriteCache[2].sprite = 3

\* C25: a string passes the validation of AssetLoader and of SpriteManager
\* exactly when it is not empty, contains a '.', and the text after its last
\* '.', lowercased, is a supported format; 'png', which has no '.', is
\* rejected and 'A.PNG' is accepted.
C25_ValidationNeedsDot ==
    (unit \in {"_validateAssetUrl", "#validateUrl"} /\ returned # NoReturn /\ args.t = "string") =>
        LET s == args.s
            formats == IF unit = "_validateAssetUrl"
                       THEN ALSupportedFormats ELSE SMSupportedFormats
            valid == /\ Len(s) > 0
                     /\ \E i \in 1..Len(s) : s[i] = "."
                     /\ ToLowerCase(SubSeq(s, LastDot(s) + 1, Len(s))) \in formats
        IN  /\ returned.kind = "return" <=> valid
            /\ s = <<"p", "n", "g">> => returned.kind = "throw"
            /\ s = <<"A", ".", "P", "N", "G">> => returned.kind = "return"

\* C26: in SpriteManager, when a load was rejected by its timeout and the
\* image fires its load event afterwards, the event adds nothing to the cache
\* and changes no promise: the rejected promise of the starter and of the
\* joiners stays rejected, and no other load is touched.
C26_LateLoadAfterTimeoutInert ==
    [][ \A i \in 1..Len(spriteLoads) :
          (SMImgOnload(i) /\ spriteLoads[i].promise = "timeout") =>
             /\ spriteCache' = spriteCache
             /\ loadingPromises' = loadingPromises
             /\ \A j \in 1..Len(spriteLoads) :
                  spriteLoads'[j].promise = spriteLoads[j].promise
      ]_vars

\* The image of a load that timed out has loaded since and its key is not
\* cached.
C26_Witness ==
    /\ unit = "SpriteManager"
    /\ \E i \in 1..Len(spriteLoads) :
         /\ spriteLoads[i].timer = "fired"
         /\ spriteLoads[i].img = "loaded"
         /\ spriteLoads[i].promise = "timeout"
         /\ spriteLoads[i].cache
         /\ ~SMCacheHas(spriteLoads[i].key)

\* C27: in AssetLoader and in SpriteManager no key is at once in the cache and
\* in the loading map, in any state reached through loadSprite with any
\* options, removeFromCache, clearCache and the completions of loads.
C27_CacheAndLoadingDisjoint ==
    /\ \A k \in ALKeys : ~(ALCacheHas(k) /\ ALLoadingHas(k))
    /\ \A k \in SMKeys : ~(SMCacheHas(k) /\ SMLoadingHas(k))

\* C28: in SpriteManager, at the moment a loadSprite(url) call made with
\* caching enabled resolves, url is in the cache, also when the call joined a
\* load another caller started.  (A call resolves when it hits the cache, or
\* when the image of the load it started or joined fires its load event.)
C28_ResolvedCallFindsKeyCached ==
    [][ /\ \A u \in SMKeys :
             (SMLoadSprite(u, TRUE) /\ result'.kind = "hit") => MapHas(spriteCache', u)
        /\ \A i \in 1..Len(spriteLoads) :
             ( /\ SMImgOnload(i)
               /\ spriteLoads[i].promise = "pending"
               /\ spriteLoads[i].cache \/ spriteLoads[i].joinedCaching ) =>
                  MapHas(spriteCache', spriteLoads[i].key)
      ]_vars

\* C29: SpriteManager evicts a cached sprite only when the key inserted is
\* not cached yet and the insertion would otherwise take the cache above
\* maxCacheSize; inserting a key that is already cached never removes a
\* different key.
C29_ReinsertEvictsNothing ==
    [][ \A i \in 1..Len(spriteLoads) :
          SMImgOnload(i) =>
             \A k \in MapKeys(spriteCache) \ MapKeys(spriteCache') :
                /\ ~MapHas(spriteCache, spriteLoads[i].key)
                /\ Len(spriteCache) + 1 > maxCacheSize
      ]_vars

\* The handlers registered.
Registered(handlers) == {handlers[i] : i \in 1..Len(handlers)}

\* C30: whenever the promise of a SpriteManager.loadSprite call rejects (the
\* url is invalid, or the load the call started or joined failed or timed
\* out), every registered error handler has been invoked exactly once with
\* the error the call rejects with, a throwing handler included and whatever
\* its place among the handlers.
C30_HandlersNotifiedOfEveryRejection ==
    [][ /\ \A u \in Urls, opt \in BOOLEAN :
             (SMLoadSprite(u, opt) /\ result'.kind = "invalid") =>
                \A h \in Registered(errorHandlers') : handled'[h] = 1
        /\ \A u \in Urls, opt \in BOOLEAN :
             ( /\ SMLoadSprite(u, opt)
               /\ result'.kind = "join"
               /\ spriteLoads'[result'.id].promise \in {"failed", "timeout"} ) =>
                \A h \in Registered(errorHandlers') : spriteLoads'[result'.id].notified[h] = 1
        /\ \A i \in 1..Len(spriteLoads) :
             ((SMImgOnerror(i) \/ SMTimeout(i)) /\ spriteLoads[i].promise = "pending") =>
                \A h \in Registered(errorHandlers') : spriteLoads'[i].notified[h] = 1
      ]_vars

C32_AlphaBelowOne ==
    (unit = "GameLoop" /\ frame.renders = 1) =>
        /\ 0 <= accumulator
        /\ accumulator < TimeStep

\* C33: in every GameLoop frame that runs without a callback error, each
\* update call receives exactly timeStep, the accumulator goes down by
\* timeStep per update, and the render callback is invoked exactly once, after
\* all the update calls of the frame.
C33_FrameStructure ==
    [][ (GLLoop("none") /\ isRunning) =>
           LET calls == frame'.calls
               n == Len(calls)
           IN  /\ n >= 1
               /\ calls[n].fn = "render"
               /\ \A i \in 1..(n - 1) : calls[i] = UpdateCall(TimeStep)
               /\ frame'.updates = n - 1
               /\ frame'.renders = 1
               /\ accumulator' =
                    accumulator + (clock - lastTimestamp) - (n - 1) * TimeStep
      ]_vars

\* A frame ran three updates and then the render, and left part of a time
\* step in the accumulator.
C33_Witness ==
    /\ unit = "GameLoop"
    /\ ~frame.threw
    /\ Len(frame.calls) = 4
    /\ frame.calls[4] = RenderCall(accumulator)
    /\ \A i \in 1..3 : frame.calls[i].fn = "update"
    /\ accumulator = 1

\* C34: for GameLoop and Canvas, whenever isRunning is true and no callback
\* of the current animation frame is left to run, at least one
\* animation-frame callback is requested: a throwing callback never leaves
\* the loop marked running with no frame pending.
C34_RunningImpliesFramePending ==
    (unit \in {"GameLoop", "Canvas"} /\ isRunning /\ firing = 0) => scheduled >= 1

\* C35: when the render of a queued object throws inside Canvas.render, the
\* error is caught and the Canvas stops: isRunning is false after the call,
\* and the callbacks of later animation frames call no update and no render
\* for as long as isRunning stays false, that is until start() is called.
C35_CanvasRenderErrorStops ==
    [][ /\ (CanvasGameLoop("render") /\ frame'.threw) => isRunning' = FALSE
        /\ \A throws \in {"none", "update", "render"} :
             (CanvasGameLoop(throws) /\ ~isRunning) =>
                /\ frame'.calls = <<>>
                /\ isRunning' = FALSE
        /\ (unit = "Canvas" /\ ~isRunning /\ isRunning') => CanvasStart
      ]_vars

\* A render error has just stopped a Canvas; the frame its gameLoop requested
\* is pending.
C35_Witness ==
    /\ unit = "Canvas"
    /\ frame.threw
    /\ frame.renders = 1
    /\ ~isRunning
    /\ scheduled = 1
    /\ firing = 0

\* C36: after dispose() a Sprite stays unloaded (isLoaded false, image null,
\* render throws 'Cannot render unloaded sprite') until load() is called on it
\* again, and in every state isLoaded is true exactly when image is not null.
C36_DisposedStaysUnloaded ==
    \A s \in 1..Len(sprites) :
        /\ sprites[s].disposed =>
              /\ ~sprites[s].isLoaded
              /\ sprites[s].image = 0
              /\ SpriteRenderThrows(sprites[s])
        /\ sprites[s].isLoaded <=> sprites[s].image # 0

\* C37: on the exported performance monitor startFrame(), endFrame() and
\* reset() complete without throwing; after startFrame() at time t0 and
\* endFrame() at time t1, getMetrics().frameTime is t1 - t0; after reset(),
\* getMetrics() has fps = frameTime = gameTime = idleTime = 0.
C37_MonitorContract ==
    unit = "Performance" =>
        /\ returned.kind # "throw"
        /\ (result.kind = "endFrame" /\ monitor.startedAt >= 0) =>
              GetMetrics(monitor).frameTime = Num(clock - monitor.startedAt)
        /\ result.kind = "reset" =>
              GetMetrics(monitor) = [fps |-> Num(0), frameTime |-> Num(0),
                                     gameTime |-> Num(0), idleTime |-> Num(0)]
====
